---- MODULE Spec2Model ----
(***************************************************************************)
(* Tic-tac-toe with move history and time travel (src/app.js).             *)
(*                                                                         *)
(* The Game component owns this.state = {history, xIsNext, stepNumber}.    *)
(* Two handlers change it: handleClick(i), wired to the nine squares of    *)
(* the Board, and jumpTo(step), wired to the buttons of the Moves list.    *)
(* Each handler runs to completion on one event, so each is one action.    *)
(*                                                                         *)
(* history is a sequence; the entry the source calls history[k] is         *)
(* history[k + 1] here (At(history, k)).  A board is a function on 0..8.   *)
(***************************************************************************)
EXTENDS Integers, Sequences, FiniteSets, TLC

VARIABLES
  history,     \* this.state.history: entries [squares, clickIndex]
  stepNumber,  \* this.state.stepNumber
  xIsNext,     \* this.state.xIsNext
  lastOp,      \* observer: the handler that ran last ("init", "click", "jump")
  clicks,      \* observer: parity of the number of state-changing handleClick calls
  jumped,      \* observer: jumpTo has been called in this run
  probe        \* a call of calculateWinner on its own: [squares, winner]

vars == <<history, stepNumber, xIsNext, lastOp, clicks, jumped, probe>>

prog == <<history, stepNumber, xIsNext>>

(***************************************************************************)
(* Bounds.  The explored runs click only the first MaxCells cells of       *)
(* cellOrder (every property still quantifies over all nine cells).  Five  *)
(* cells hold the triple [0,1,2], so a game can be won; a sixth adds       *)
(* [0,3,6] and [2,4,6] and room for the second player to win.              *)
(***************************************************************************)
MaxCells == 5

cellOrder == <<0, 1, 2, 3, 4, 6, 5, 7, 8>>

ClickCells == {cellOrder[k] : k \in 1..MaxCells}

(***************************************************************************)
(* In the runs that only click, every cell is clicked and games are played *)
(* to the end; only the first move is confined, to the first MaxOpenings   *)
(* cells of openingOrder: the centre and a corner, then an edge (the three *)
(* kinds of opening up to the rotations and reflections of the board).     *)
(***************************************************************************)
MaxOpenings == 2

openingOrder == <<4, 0, 1, 2, 3, 5, 6, 7, 8>>

Openings == {openingOrder[k] : k \in 1..MaxOpenings}

(***************************************************************************)
(* Values                                                                  *)
(***************************************************************************)
Null == "null"

NoIndex == -1

Cells == 0..8

EmptyBoard == [c \in Cells |-> Null]

InitialEntry == [squares |-> EmptyBoard, clickIndex |-> NoIndex]

At(h, k) == h[k + 1]

(***************************************************************************)
(* calculateWinner                                                         *)
(***************************************************************************)
lines == << <<0, 1, 2>>, <<3, 4, 5>>, <<6, 7, 8>>,
            <<0, 3, 6>>, <<1, 4, 7>>, <<2, 5, 8>>,
            <<0, 4, 8>>, <<2, 4, 6>> >>

\* Variant: the test that the first cell of the triple is non-empty is missing.
RECURSIVE scanLines_noEmptyTest(_, _)
scanLines_noEmptyTest(squares, n) ==
  IF n > Len(lines) THEN Null
  ELSE LET a == lines[n][1]
           b == lines[n][2]
           c == lines[n][3]
       IN IF squares[a] = squares[b] /\ squares[a] = squares[c]
          THEN squares[a]
          ELSE scanLines_noEmptyTest(squares, n + 1)

RECURSIVE scanLines(_, _)
scanLines(squares, n) ==
  IF n > Len(lines) THEN Null
  ELSE LET a == lines[n][1]
           b == lines[n][2]
           c == lines[n][3]
       IN IF squares[a] # Null /\ squares[a] = squares[b] /\ squares[a] = squares[c]
          THEN squares[a]
          ELSE scanLines(squares, n + 1)

calculateWinner(squares) == scanLines(squares, 1)

(***************************************************************************)
(* Game.handleClick and Game.jumpTo as functions of this.state             *)
(***************************************************************************)
state == [history |-> history, stepNumber |-> stepNumber, xIsNext |-> xIsNext]

\* No call of calculateWinner on its own is under way.
NoProbe == [squares |-> EmptyBoard, winner |-> "none"]

\* Variant: the history is not cut back to the current step.
sliceHistory_keepsAll(st) == st.history

sliceHistory(st) == SubSeq(st.history, 1, st.stepNumber + 1)

\* Variant: the winner test is missing from the guard.
blocked_ignoresWinner(squares, i) == squares[i] # Null

\* Variant: the occupied-cell test is missing from the guard.
blocked_ignoresOccupied(squares, i) == calculateWinner(squares) # Null

blocked(squares, i) == squares[i] # Null \/ calculateWinner(squares) # Null

\* Variant: the turn flag is not consulted.
mark_alwaysX(flag) == "x"

\* Variant: the two symbols are exchanged.
mark_swapped(flag) == IF flag THEN "o" ELSE "x"

mark(flag) == IF flag THEN "x" ELSE "o"

\* Variant: current.squares is written in place instead of through a copy, so
\* the entry at the current step receives the mark too.
handleClick_noCopy(st, i) ==
  LET h       == SubSeq(st.history, 1, st.stepNumber + 1)
      squares == h[Len(h)].squares
      marked  == [squares EXCEPT ![i] = IF st.xIsNext THEN "x" ELSE "o"]
  IN IF squares[i] # Null \/ calculateWinner(squares) # Null
     THEN st
     ELSE [history    |-> [h EXCEPT ![Len(h)].squares = marked]
                            \o << [squares |-> marked, clickIndex |-> i] >>,
           stepNumber |-> Len(h),
           xIsNext    |-> ~st.xIsNext]

\* Variant: stepNumber is set to the last position of the sliced history
\* instead of the position of the new entry.
handleClick_staysOnStep(st, i) ==
  LET h       == SubSeq(st.history, 1, st.stepNumber + 1)
      squares == h[Len(h)].squares
  IN IF squares[i] # Null \/ calculateWinner(squares) # Null
     THEN st
     ELSE [history    |-> h \o << [squares    |-> [squares EXCEPT ![i] =
                                                    IF st.xIsNext THEN "x" ELSE "o"],
                                   clickIndex |-> i] >>,
           stepNumber |-> Len(h) - 1,
           xIsNext    |-> ~st.xIsNext]

handleClick(st, i) ==
  LET h       == sliceHistory(st)
      current == h[Len(h)]
      squares == current.squares
  IN IF blocked(squares, i)
     THEN st
     ELSE [history    |-> h \o << [squares    |-> [squares EXCEPT ![i] = mark(st.xIsNext)],
                                   clickIndex |-> i] >>,
           stepNumber |-> Len(h),
           xIsNext    |-> ~st.xIsNext]

\* Variant: the jump also discards the entries after the step.
jumpTo_truncates(st, step) ==
  [history    |-> SubSeq(st.history, 1, step + 1),
   stepNumber |-> step,
   xIsNext    |-> (step % 2) = 0]

\* Variant: the Moves buttons are inert once the displayed board is won.
jumpTo_lockedAfterWin(st, step) ==
  IF calculateWinner(st.history[st.stepNumber + 1].squares) # Null
  THEN st
  ELSE [history    |-> st.history,
        stepNumber |-> step,
        xIsNext    |-> (step % 2) = 0]

\* Variant: the turn flag is not recomputed.
jumpTo_keepsTurn(st, step) ==
  [history    |-> st.history,
   stepNumber |-> step,
   xIsNext    |-> st.xIsNext]

jumpTo(st, step) ==
  [history    |-> st.history,
   stepNumber |-> step,
   xIsNext    |-> (step % 2) = 0]

(***************************************************************************)
(* The views Game.render builds from this.state.  A text built by string   *)
(* concatenation is the tuple of its parts.                                *)
(***************************************************************************)
\* Variant: the next-player text names the player who has just moved.
Status_namesLastPlayer(squares, flag) ==
  LET winner == calculateWinner(squares)
  IN [effect |-> IF winner # Null THEN "bounce" ELSE "",
      status |-> IF winner # Null
                 THEN <<"Winner is: ", winner>>
                 ELSE <<"Next player is: ", IF flag THEN "o" ELSE "x">>]

Status(squares, flag) ==
  LET winner == calculateWinner(squares)
  IN [effect |-> IF winner # Null THEN "bounce" ELSE "",
      status |-> IF winner # Null
                 THEN <<"Winner is: ", winner>>
                 ELSE <<"Next player is: ", IF flag THEN "x" ELSE "o">>]

\* render: current = history[stepNumber]; <Status squares xIsNext />
StatusView == Status(At(history, stepNumber).squares, xIsNext)

\* A number read from a clickIndex: null counts as 0 in '%' and '/'.
toNumber(clickIndex) == IF clickIndex = NoIndex THEN 0 ELSE clickIndex

\* Variant: the row is taken from the remainder and the column from the quotient.
clickPosition_swapped(clickIndex) ==
  LET col == toNumber(clickIndex) \div 3
      row == toNumber(clickIndex) % 3
  IN <<"(row:", row, ", col:", col, ")">>

clickPosition(clickIndex) ==
  LET col == toNumber(clickIndex) % 3
      row == toNumber(clickIndex) \div 3
  IN <<"(row:", row, ", col:", col, ")">>

\* Variant: every move from the current one on is shown as selected.
btn_highlight_fromStep(step, move) ==
  IF step <= move THEN "btn-primary" ELSE "btn-secondary"

btn_highlight(step, move) ==
  IF step = move THEN "btn-primary" ELSE "btn-secondary"

\* One list item per history entry, in the order of the history.
Moves(h, step) ==
  [n \in 1..Len(h) |->
     LET move == n - 1
     IN [key       |-> move,
         className |-> <<"btn ", btn_highlight(step, move), " btn-block">>,
         onClick   |-> move,
         desc      |-> IF move # 0
                       THEN <<"Go to move #", move, " ">> \o clickPosition(h[n].clickIndex)
                       ELSE <<"Go to game start">>]]

\* render: <Moves history stepNumber onClick={this.jumpTo} />
MovesView == Moves(history, stepNumber)

\* Array.prototype.slice(begin, end) on a sequence indexed from 0.
slice(seq, begin, end) ==
  SubSeq(seq, begin + 1, IF end < Len(seq) THEN end ELSE Len(seq))

\* ArrRows.map: the rows are built in order and each evaluates counter++ once.
RECURSIVE boardRows(_, _, _, _)
boardRows(cells, squares, rows, counter) ==
  IF rows = <<>> THEN <<>>
  ELSE LET row    == Head(rows)
           rowIDs == slice(cells, row * 3, counter * 3)
       IN << [key     |-> row,
              squares |-> [j \in 1..Len(rowIDs) |->
                             [key     |-> rowIDs[j],
                              value   |-> squares[rowIDs[j]],
                              onClick |-> rowIDs[j]]]] >>
          \o boardRows(cells, squares, Tail(rows), counter + 1)

\* Variant: the counter starts at 0.
Board_counterFromZero(cells, squares) == boardRows(cells, squares, <<0, 1, 2>>, 0)

Board(cells, squares) == boardRows(cells, squares, <<0, 1, 2>>, 1)

\* render: <Board squares onClick={this.handleClick} cells={[0,...,8]} />
BoardView == Board(<<0, 1, 2, 3, 4, 5, 6, 7, 8>>, At(history, stepNumber).squares)

\* The positions the Moves list offers a button for.
MoveButtons(h) == 0..(Len(h) - 1)

setState(st) ==
  /\ history' = st.history
  /\ stepNumber' = st.stepNumber
  /\ xIsNext' = st.xIsNext

(***************************************************************************)
(* The state machine                                                       *)
(***************************************************************************)
Init ==
  /\ history = <<InitialEntry>>
  /\ xIsNext = TRUE
  /\ stepNumber = 0
  /\ lastOp = "init"
  /\ clicks = 0
  /\ jumped = FALSE
  /\ probe = NoProbe

HandleClick(i) ==
  /\ setState(handleClick(state, i))
  /\ lastOp' = "click"
  /\ clicks' = IF handleClick(state, i) # state THEN (clicks + 1) % 2 ELSE clicks
  /\ UNCHANGED <<jumped, probe>>

JumpTo(step) ==
  /\ setState(jumpTo(state, step))
  /\ lastOp' = "jump"
  /\ jumped' = TRUE
  /\ UNCHANGED <<clicks, probe>>

Next ==
  \/ \E i \in ClickCells : HandleClick(i)
  \/ \E step \in MoveButtons(history) : JumpTo(step)

Spec == Init /\ [][Next]_vars

\* Runs in which only the squares are clicked and the Moves list is never used.
\* Every cell can be clicked, except that the first move of the game is one of
\* Openings.
ClickChoice == IF Len(history) = 1 THEN Openings ELSE Cells

NextClicks == \E i \in ClickChoice : HandleClick(i)

SpecClicks == Init /\ [][NextClicks]_vars

(***************************************************************************)
(* calculateWinner on its own: called once on any board of nine cells,     *)
(* each empty, 'x' or 'o', whether a game can produce the board or not.    *)
(***************************************************************************)
Boards == [Cells -> {Null, "x", "o"}]

InitWinner ==
  /\ history = <<InitialEntry>>
  /\ xIsNext = TRUE
  /\ stepNumber = 0
  /\ lastOp = "init"
  /\ clicks = 0
  /\ jumped = FALSE
  /\ \E b \in Boards : probe = [squares |-> b, winner |-> "pending"]

CallWinner ==
  /\ probe.winner = "pending"
  /\ probe' = [squares |-> probe.squares, winner |-> calculateWinner(probe.squares)]
  /\ UNCHANGED <<history, stepNumber, xIsNext, lastOp, clicks, jumped>>

NextWinner == CallWinner

SpecWinner == InitWinner /\ [][NextWinner]_vars

(***************************************************************************)
(* Vocabulary of the properties                                            *)
(***************************************************************************)
LastStep == Len(history) - 1

CurrentBoard == At(history, stepNumber).squares

IsEven(n) == \E m \in 0..n : n = 2 * m

Count(board, sym) == Cardinality({c \in Cells : board[c] = sym})

\* The entry a move records: the board with cell i holding sym, and i itself.
NewEntry(board, i, sym) ==
  [squares    |-> [c \in Cells |-> IF c = i THEN sym ELSE board[c]],
   clickIndex |-> i]

\* The symbol in the cell that the entry at the current step records as clicked.
Placed == CurrentBoard[At(history, stepNumber).clickIndex]

\* A step in which handleClick changed the state.
AcceptedClickStep == lastOp' = "click" /\ prog' # prog

(***************************************************************************)
(* C1: a rejected click is a complete no-op.  In every reachable state,    *)
(* for every cell i: if the board at stepNumber has cell i non-empty, or   *)
(* calculateWinner of that board is non-null, then handleClick(i) leaves   *)
(* history (entries after stepNumber included, no truncation), stepNumber  *)
(* and xIsNext as they are.                                                *)
(***************************************************************************)
C1_RejectedClickIsNoOp ==
  \A i \in Cells :
    (CurrentBoard[i] # Null \/ calculateWinner(CurrentBoard) # Null)
      => handleClick(state, i) =
           [history |-> history, stepNumber |-> stepNumber, xIsNext |-> xIsNext]

\* A click has just been rejected while entries after the current step exist.
C1_Witness ==
  /\ lastOp = "click"
  /\ stepNumber >= 1
  /\ stepNumber < LastStep

(***************************************************************************)
(* C2: accepted click postcondition.  With stepNumber = s, cell i empty in *)
(* the step-s board and no winner on it, handleClick(i) yields the old     *)
(* entries 0..s followed by one new entry whose board is the step-s board  *)
(* with cell i set to 'x' if xIsNext was true and 'o' otherwise and whose  *)
(* clickIndex is i; stepNumber = s + 1 = history length - 1; xIsNext is    *)
(* negated.                                                                *)
(***************************************************************************)
C2_AcceptedClickPost ==
  \A i \in Cells :
    (CurrentBoard[i] = Null /\ calculateWinner(CurrentBoard) = Null)
      => LET s       == stepNumber
             entries == [k \in 1..(s + 2) |->
                           IF k <= s + 1
                           THEN At(history, k - 1)
                           ELSE NewEntry(CurrentBoard, i, IF xIsNext THEN "x" ELSE "o")]
         IN /\ handleClick(state, i) =
                 [history |-> entries, stepNumber |-> s + 1, xIsNext |-> ~xIsNext]
            /\ s + 1 = Len(entries) - 1

\* The third move of a game has just been recorded by a click.
C2_Witness ==
  /\ lastOp = "click"
  /\ stepNumber = 3
  /\ LastStep = 3
  /\ Placed = "x"

(***************************************************************************)
(* C3: jumpTo(step) with 0 <= step < history length sets stepNumber to     *)
(* step and xIsNext to (step is even) and leaves the history sequence      *)
(* unchanged; the entries after step are still present.                    *)
(***************************************************************************)
C3_JumpToFrame ==
  \A step \in 0..(Len(history) - 1) :
    jumpTo(state, step) =
      [history |-> history, stepNumber |-> step, xIsNext |-> IsEven(step)]

\* A jump back has just run and the later entries are still there.
C3_Witness ==
  /\ lastOp = "jump"
  /\ stepNumber < LastStep
  /\ LastStep >= 3

(***************************************************************************)
(* C4: in every state reachable by handleClick and in-range jumpTo calls,  *)
(* xIsNext equals (stepNumber is even).                                    *)
(***************************************************************************)
C4_TurnFollowsStep == xIsNext = IsEven(stepNumber)

\* A click after time travel has left an odd step with 'o' to move.
C4_Witness ==
  /\ jumped
  /\ lastOp = "click"
  /\ stepNumber = 3
  /\ stepNumber = LastStep
  /\ ~xIsNext

(***************************************************************************)
(* C5: branch truncation after time travel.  With history length L, for    *)
(* every s < L - 1 and every cell k empty in the step-s board, jumpTo(s)   *)
(* followed by handleClick(k) is accepted and yields a history of length   *)
(* s + 2 whose entries 0..s are the old ones and whose entry s + 1 is the  *)
(* new move; the former entries s + 1 .. L - 1 are gone.                   *)
(***************************************************************************)
C5_BranchTruncation ==
  \A s \in 0..(Len(history) - 2) :
    \A k \in Cells :
      At(history, s).squares[k] = Null
        => LET entries == [j \in 1..(s + 2) |->
                             IF j <= s + 1
                             THEN At(history, j - 1)
                             ELSE NewEntry(At(history, s).squares, k,
                                           IF IsEven(s) THEN "x" ELSE "o")]
           IN handleClick(jumpTo(state, s), k) =
                [history |-> entries, stepNumber |-> s + 1, xIsNext |-> ~IsEven(s)]

\* A click has just been accepted in a run whose accepted clicks outnumber the
\* recorded moves by an odd number: earlier entries have been discarded.
C5_Witness ==
  /\ jumped
  /\ lastOp = "click"
  /\ stepNumber = LastStep
  /\ LastStep >= 2
  /\ clicks # LastStep % 2

(***************************************************************************)
(* C6 (as stated): the Nth state-changing handleClick of a run places 'x'  *)
(* when N is odd and 'o' when N is even, whatever rejected clicks and      *)
(* jumpTo calls occur between them.                                        *)
(***************************************************************************)
C6_AlternationByCount ==
  [][AcceptedClickStep => Placed' = (IF clicks' = 1 THEN "x" ELSE "o")]_vars

(***************************************************************************)
(* C6 (amended): a state-changing handleClick places 'x' when the history  *)
(* position it creates is odd and 'o' when it is even; in a run without    *)
(* jumpTo the Nth state-changing handleClick places 'x' when N is odd and  *)
(* 'o' when N is even, whatever rejected clicks occur between them.        *)
(***************************************************************************)
C6_AlternationByStep ==
  [][AcceptedClickStep =>
       /\ stepNumber' = stepNumber + 1
       /\ Placed' = (IF IsEven(stepNumber') THEN "o" ELSE "x")
       /\ (~jumped => Placed' = (IF clicks' = 1 THEN "x" ELSE "o"))]_vars

\* Four clicks have been accepted in a run without jumpTo; the fourth placed 'o'.
C6_Witness ==
  /\ ~jumped
  /\ lastOp = "click"
  /\ stepNumber = 4
  /\ clicks = 0
  /\ Placed = "o"

(***************************************************************************)
(* C7: board balance.  The board at history position k holds exactly k     *)
(* marks, ceil(k/2) of them 'x' and floor(k/2) of them 'o'; so on every    *)
(* stored board (#x) - (#o) is 0 or 1.                                     *)
(***************************************************************************)
C7_BoardBalance ==
  \A k \in 0..(Len(history) - 1) :
    LET b == At(history, k).squares
    IN /\ Count(b, "x") + Count(b, "o") = k
       /\ Count(b, "x") = (k + 1) \div 2
       /\ Count(b, "o") = k \div 2
       /\ Count(b, "x") - Count(b, "o") \in {0, 1}

\* After time travel the history has been regrown to five moves.
C7_Witness ==
  /\ jumped
  /\ LastStep = 5
  /\ stepNumber = 5

(***************************************************************************)
(* C8: no cell is overwritten.  For 1 <= k < history length, history[k]    *)
(* equals history[k-1] in all cells but history[k].clickIndex, which is    *)
(* empty in history[k-1] and non-empty in history[k]; a cell non-empty at  *)
(* some step keeps its symbol at every later step; and no step changes an  *)
(* entry at a position that both the old and the new state keep at or      *)
(* below the current step.                                                 *)
(***************************************************************************)
C8_StepwiseBoards ==
  /\ \A k \in 1..(Len(history) - 1) :
       LET e == At(history, k)
           p == At(history, k - 1)
       IN /\ e.clickIndex \in Cells
          /\ p.squares[e.clickIndex] = Null
          /\ e.squares[e.clickIndex] # Null
          /\ \A c \in Cells \ {e.clickIndex} : e.squares[c] = p.squares[c]
  /\ \A j \in 0..(Len(history) - 1) :
       \A k \in j..(Len(history) - 1) :
         \A c \in Cells :
           At(history, j).squares[c] # Null
             => At(history, k).squares[c] = At(history, j).squares[c]

C8_RecordedEntriesKept ==
  \A k \in 0..stepNumber : At(history', k) = At(history, k)

\* C8: every stored board extends its predecessor by one mark on an empty
\* cell, and no step changes an entry at or below the current step.
C8_NoCellOverwritten == []C8_StepwiseBoards /\ [][C8_RecordedEntriesKept]_vars

\* A click on an occupied cell has just been refused in a five-move history.
C8_Witness ==
  /\ lastOp = "click"
  /\ LastStep = 5
  /\ stepNumber = 2
  /\ clicks = 1

(***************************************************************************)
(* C9: the history is never empty and history[0] is always the initial     *)
(* entry: nine empty cells and no clickIndex.                              *)
(***************************************************************************)
C9_InitialEntryKept ==
  /\ Len(history) >= 1
  /\ \A c \in Cells : At(history, 0).squares[c] = Null
  /\ At(history, 0).clickIndex = NoIndex

\* After a jump to the game start a click has cut the history back to one move.
C9_Witness ==
  /\ jumped
  /\ lastOp = "click"
  /\ LastStep = 1
  /\ stepNumber = 1
  /\ clicks = 0

(***************************************************************************)
(* C10: idempotent click.  For every cell i, handleClick(i) followed at    *)
(* once by handleClick(i) gives the state a single handleClick(i) gives:   *)
(* the second call changes nothing.                                        *)
(***************************************************************************)
C10_IdempotentClick ==
  \A i \in Cells :
    handleClick(handleClick(state, i), i) = handleClick(state, i)

\* Cell 0 has been clicked at the start and the history still holds one move.
C10_Witness ==
  /\ ~jumped
  /\ lastOp = "click"
  /\ LastStep = 1
  /\ CurrentBoard[0] = "x"
  /\ clicks = 1

(***************************************************************************)
(* C11: the game stays interactive after a win.  From every reachable      *)
(* state whose current board has a winner, jumpTo(s) takes the game to     *)
(* step s for every s in 0..history length - 1, and after a jump to any    *)
(* s < stepNumber a click on a cell empty in the step-s board is accepted: *)
(* it changes the state and cuts the history back to entries 0..s plus the *)
(* new move, so the entry that held the win is discarded.  No reachable    *)
(* state is a dead end in which every click and every jump is a no-op.     *)
(***************************************************************************)
C11_InteractiveAfterWin ==
  /\ calculateWinner(CurrentBoard) # Null =>
       /\ \A s \in 0..LastStep :
            jumpTo(state, s) =
              [history |-> history, stepNumber |-> s, xIsNext |-> IsEven(s)]
       /\ \A s \in 0..(stepNumber - 1) :
            \A k \in Cells :
              At(history, s).squares[k] = Null =>
                LET r == handleClick(jumpTo(state, s), k)
                IN /\ r.stepNumber = s + 1
                   /\ Len(r.history) = s + 2
                   /\ s + 2 <= Len(history)
  /\ \/ \E i \in Cells : handleClick(state, i) # state
     \/ \E s \in 0..LastStep : jumpTo(state, s) # state

\* A jump back has just run in a game whose last entry is a won board.
C11_Witness ==
  /\ lastOp = "jump"
  /\ stepNumber < LastStep
  /\ calculateWinner(At(history, LastStep).squares) # Null

(***************************************************************************)
(* C12: calculateWinner over all boards.  For every board of nine cells    *)
(* in {empty, 'x', 'o'}, the result is the symbol of the first triple, in  *)
(* the order [0,1,2], [3,4,5], [6,7,8], [0,3,6], [1,4,7], [2,5,8],         *)
(* [0,4,8], [2,4,6], whose three cells are non-empty and identical; it is  *)
(* null exactly when there is no such triple; the board is not modified.   *)
(***************************************************************************)
C12_Triples == << <<0, 1, 2>>, <<3, 4, 5>>, <<6, 7, 8>>,
                  <<0, 3, 6>>, <<1, 4, 7>>, <<2, 5, 8>>,
                  <<0, 4, 8>>, <<2, 4, 6>> >>

C12_Complete(b, n) ==
  /\ b[C12_Triples[n][1]] \in {"x", "o"}
  /\ b[C12_Triples[n][2]] = b[C12_Triples[n][1]]
  /\ b[C12_Triples[n][3]] = b[C12_Triples[n][1]]

C12_Expected(b) ==
  IF \E n \in 1..8 : C12_Complete(b, n)
  THEN LET first == CHOOSE n \in 1..8 :
                      /\ C12_Complete(b, n)
                      /\ \A m \in 1..(n - 1) : ~C12_Complete(b, m)
       IN b[C12_Triples[first][1]]
  ELSE Null

C12_ResultRight ==
  probe.winner # "pending" =>
    /\ probe.winner = C12_Expected(probe.squares)
    /\ (probe.winner = Null <=> ~\E n \in 1..8 : C12_Complete(probe.squares, n))

C12_WinnerCorrect ==
  []C12_ResultRight /\ [][probe'.squares = probe.squares]_vars

\* calculateWinner has returned 'o' for a board on which 'x' holds a later triple.
C12_Witness ==
  /\ probe.winner = "o"
  /\ C12_Complete(probe.squares, 2)
  /\ C12_Complete(probe.squares, 3)
  /\ probe.squares[6] = "x"

(***************************************************************************)
(* C13: the winner is unambiguous in a real game.  On every board stored   *)
(* in the history, 'x' and 'o' never both hold a completed triple, so      *)
(* every completed triple holds the symbol calculateWinner returns: the    *)
(* order in which the eight triples are examined does not matter.          *)
(***************************************************************************)
\* The symbols that hold a completed triple on board b.
C13_Holders(b) ==
  {b[C12_Triples[n][1]] : n \in {m \in 1..8 : C12_Complete(b, m)}}

C13_WinnerUnambiguous ==
  \A k \in 0..LastStep :
    \A b \in {At(history, k).squares} :
      \A holders \in {C13_Holders(b)} :
        /\ ~({"x", "o"} \subseteq holders)
        /\ \A sym \in holders : sym = calculateWinner(b)

\* The last move has completed two triples at once.
C13_Witness ==
  /\ lastOp = "click"
  /\ \E n \in 1..8 : \E m \in 1..8 :
       /\ n # m
       /\ C12_Complete(CurrentBoard, n)
       /\ C12_Complete(CurrentBoard, m)

(***************************************************************************)
(* C14: status text.  The status shows the winner message, naming          *)
(* calculateWinner of the current board, exactly when that result is       *)
(* non-null; otherwise it shows the next-player message, naming 'x' when   *)
(* xIsNext is true and 'o' when it is false.  On a full board without      *)
(* winner no draw is reported: the status still names a next player,       *)
(* although every handleClick is then a no-op.                             *)
(***************************************************************************)
C14_Full(b) == \A c \in Cells : b[c] # Null

C15_Highlighted(list) == {n \in 1..Len(list) : list[n].className[2] = "btn-primary"}

C15_MoveList ==
  /\ 0 <= stepNumber
  /\ stepNumber < Len(history)
  /\ \A list \in {MovesView} :
       /\ Len(list) = Len(history)
       /\ \A n \in 1..Len(list) : list[n].key = n - 1 /\ list[n].onClick = n - 1
       /\ C15_Highlighted(list) = {stepNumber + 1}
       /\ \A n \in C15_Highlighted(list) :
            \A view \in {BoardView} :
              \A r \in 0..2 : \A c \in 0..2 :
                view[r + 1].squares[c + 1].value = At(history, n - 1).squares[r * 3 + c]

\* After a jump back the second of four items is the highlighted one.
C15_Witness ==
  /\ lastOp = "jump"
  /\ stepNumber = 1
  /\ LastStep = 3
  /\ MovesView[2].className[2] = "btn-primary"
  /\ MovesView[4].className[2] = "btn-secondary"

C17_BoardWiring ==
  \A view \in {BoardView} :
    /\ Len(view) = 3
    /\ \A r \in 0..2 :
         /\ Len(view[r + 1].squares) = 3
         /\ \A c \in 0..2 :
              /\ view[r + 1].squares[c + 1].value = CurrentBoard[r * 3 + c]
              /\ view[r + 1].squares[c + 1].onClick = r * 3 + c
    /\ \A i \in Cells :
         Cardinality({rc \in (1..Len(view)) \X (1..9) :
                        /\ rc[2] <= Len(view[rc[1]].squares)
                        /\ view[rc[1]].squares[rc[2]].onClick = i}) = 1

\* The board has been rendered again after clicks on the centre and on cell 3.
C17_Witness ==
  /\ lastOp = "click"
  /\ LastStep = 2
  /\ BoardView[2].squares[2].value = "x"
  /\ BoardView[2].squares[1].value = "o"

(***************************************************************************)
(* C18: a winning board can only be the last entry of the history: for     *)
(* every k < history length - 1, calculateWinner(history[k].squares) is    *)
(* null.  So after jumpTo to any step but the last, the board that        *)
(* handleClick tests is that entry's and the winner test of its guard      *)
(* rejects no click.                                                       *)
(***************************************************************************)
C18_WinOnlyLast ==
  \A k \in 0..(LastStep - 1) :
    \A b \in {At(history, k).squares} :
      /\ calculateWinner(b) = Null
      /\ \A cut \in {sliceHistory(jumpTo(state, k))} :
           \A squares \in {cut[Len(cut)].squares} :
             /\ squares = b
             /\ calculateWinner(squares) = Null

\* A game has been won on its seventh move.
C18_Witness ==
  /\ lastOp = "click"
  /\ LastStep = 7
  /\ calculateWinner(At(history, LastStep).squares) # Null

(***************************************************************************)
(* C19: the winner is the player who moved last.  If calculateWinner of    *)
(* the board at history position k is non-null then k >= 5 and the winner  *)
(* is 'x' when k is odd and 'o' when k is even; so a winner announced for  *)
(* the current board is the symbol opposite to the one xIsNext designates  *)
(* as next.                                                                *)
(***************************************************************************)
C19_WinnerMovedLast ==
  /\ \A k \in 0..LastStep :
       \A w \in {calculateWinner(At(history, k).squares)} :
         w # Null =>
           /\ k >= 5
           /\ w = (IF IsEven(k) THEN "o" ELSE "x")
  /\ \A shown \in {StatusView.status} :
       shown[1] = "Winner is: " =>
         /\ shown[2] \in {"x", "o"}
         /\ shown[2] # (IF xIsNext THEN "x" ELSE "o")

\* 'o' has won on the sixth move and the status announces it.
C19_Witness ==
  /\ lastOp = "click"
  /\ stepNumber = 6
  /\ xIsNext
  /\ StatusView.status = <<"Winner is: ", "o">>

(***************************************************************************)
(* C20: bounded play.  The history never holds more than 10 entries and    *)
(* stepNumber never exceeds 9.  In a run that only clicks, every call      *)
(* that changes the state adds one entry, so at most 9 calls change it;    *)
(* once 9 have, or once the board is won, every handleClick(i) is a no-op, *)
(* and stays one whatever is clicked.  jumpTo still changes the state      *)
(* there, so with jumpTo a run can go on changing state.                   *)
(***************************************************************************)
C20_Over == \A i \in Cells : handleClick(state, i) = state

C20_Bounded ==
  /\ Len(history) <= 10
  /\ stepNumber <= 9
  /\ (LastStep = 9 \/ calculateWinner(CurrentBoard) # Null) => C20_Over
  /\ C20_Over =>
       /\ LastStep = 9 \/ calculateWinner(CurrentBoard) # Null
       /\ \A back \in {jumpTo(state, 0)} :
            /\ back # state
            /\ \E i \in Cells : handleClick(back, i) # back

C20_ClickStep ==
  /\ prog' # prog => Len(history') = Len(history) + 1
  /\ C20_Over => prog' = prog

C20_BoundedPlay == []C20_Bounded /\ [][C20_ClickStep]_vars

\* The ninth move has filled the board and won the game.
C20_Witness ==
  /\ lastOp = "click"
  /\ LastStep = 9
  /\ calculateWinner(CurrentBoard) = "x"
  /\ C20_Over

====
